---- MODULE Spec2Model ----
(***************************************************************************)
(* Model of the WeddingSite upload backend: the two variants of            *)
(* uploadHandler (Backend/main.go, field "file", port 8080, no CORS; and   *)
(* the CORS variant, field "image", port 8085), run by net/http with one   *)
(* goroutine per request against a shared upload directory and clock.      *)
(***************************************************************************)
EXTENDS Integers, Sequences, FiniteSets, TLC

\* ------------------------------------------------------------------ bounds
NumReq == 2
MaxLen == 2
MaxByte == 2
MaxClock == 1
\* io.Copy moves the payload in buffer-sized pieces (32 KiB in the Go
\* library); the model scales the buffer so that a payload of MaxLen bytes
\* takes several writes.
CopyBuf == 1

\* ------------------------------------------------------- program constants
uploadPath == "./uploads"

StatusOK == 200
StatusBadRequest == 400
StatusNotFound == 404
StatusMethodNotAllowed == 405
StatusInternalServerError == 500

Reqs == 1..NumReq
Bytes == 1..MaxByte
Payloads == UNION {[1..n -> Bytes] : n \in 0..MaxLen}
Methods == {"POST", "GET", "OPTIONS"}
Variants == {"plain", "cors"}
Fields == {"file", "image"}
\* the URL paths clients use: /upload, and the three the companion frontend
\* posts its forms to
Paths == {"/upload", "/uploadimage", "/uploadsong", "/uploadrsvp"}

\* A request body: not parseable as multipart/form-data (empty body, wrong
\* content type, broken boundary), or a multipart form with at most one
\* file part.
Forms == {[multipart |-> FALSE, field |-> "", payload |-> <<>>]}
         \cup {[multipart |-> TRUE, field |-> "", payload |-> <<>>]}
         \cup {[multipart |-> TRUE, field |-> f, payload |-> p] :
                   f \in Fields, p \in Payloads}

\* what the frontend's forms send: a POST with one file part; the server's
\* multiplexer does not look at it
FrontendForm == [multipart |-> TRUE, field |-> "image", payload |-> <<1>>]

NoReq == [path |-> "", method |-> "",
          form |-> [multipart |-> FALSE, field |-> "", payload |-> <<>>]]
NoResp == [status |-> 0, body |-> "", headers |-> {}, writes |-> 0]
NoHandles == [name |-> "", off |-> 0, open |-> {}, deferred |-> {},
              fault |-> "none", env |-> FALSE]
NoHist == [preNames |-> {}, doneBefore |-> {}, retFile |-> {},
           pre |-> {}, at |-> {}, post |-> {}]

VARIABLES
    variant,    \* which of the two handlers this deployment runs
    listener,   \* "init", "serving", "failed": http.ListenAndServe
    proc,       \* the process: "running" or "exited", and its standard output
    dirExists,  \* whether ./uploads exists
    files,      \* ./uploads: file name -> content (sequence of bytes)
    now,        \* the clock, in units of its resolution
    req,        \* per request: method and form
    pc,         \* per request: position in uploadHandler
    resp,       \* per request: the http.ResponseWriter
    h,          \* per request: locals (destination name, copy offset, open handles,
                \* deferred Close calls),
                \* the OS call that returned an error, and whether that error came
                \* from the environment (anything but "already exists")
    trace,      \* per request: the steps the handler has executed
    hist        \* per request: observations (file names at arrival, requests finished
                \* before, destination at return, directory and files at arrival,
                \* clock reading at os.Create, directory and files at return)

vars == <<variant, listener, proc, dirExists, files, now, req, pc, resp, h, trace, hist>>

\* ----------------------------------------------------------------- helpers
Max(a, b) == IF a >= b THEN a ELSE b
Min(a, b) == IF a <= b THEN a ELSE b

\* the form field each variant reads with request.FormFile
FieldName(v) == IF v = "cors" THEN "image" ELSE "file"

\* mutant: only the origin header is set
CORSHeaders_OnlyOrigin(v) ==
    IF v = "cors" THEN {<<"Access-Control-Allow-Origin", "*">>} ELSE {}

\* response.Header().Set(...) x3, CORS variant only
CORSHeaders(v) ==
    IF v = "cors"
    THEN {<<"Access-Control-Allow-Origin", "*">>,
          <<"Access-Control-Allow-Methods", "POST">>,
          <<"Access-Control-Allow-Headers", "Content-Type">>}
    ELSE {}

\* mutant: the OPTIONS test is missing, a preflight falls through to the parser
IsPreflight_Never(v, m) == FALSE

\* request.Method == http.MethodOptions short-circuit, CORS variant only
IsPreflight(v, m) == v = "cors" /\ m = "OPTIONS"

\* whether the variant calls request.ParseMultipartForm before looking at
\* the method
ParsesBeforeMethod(v) == v = "cors"

\* request.ParseMultipartForm(32 << 20) returns an error
ParseFails(form) == ~form.multipart

\* request.Method == http.MethodPost
IsPost(m) == m = "POST"

\* mutant: the error of FormFile is dropped (file, _, _ := ...)
FormFileFails_Never(form, fname) == FALSE

\* mutant: FormFile takes the first file part whatever its field name
FormFileFails_AnyPart(form, fname) == ~form.multipart \/ form.field = ""

\* request.FormFile(name) returns an error: the form cannot be parsed
\* (FormFile parses it when it has not been parsed yet) or has no file part
\* under that name
FormFileFails(form, fname) == ~form.multipart \/ form.field # fname

\* time.Now().String(): an injective rendering of the clock reading
TimeString(t) == "m=+" \o ToString(t)

\* filepath.Join(uploadPath, name): cleans "./uploads" to "uploads"
Join(dir, name) == (IF dir = "./uploads" THEN "uploads" ELSE dir) \o "/" \o name

\* os.IsNotExist(err) after os.Stat(uploadPath)
StatNotExist(exists) == ~exists

\* os.Mkdir returns an error: the path already exists, or the environment
\* refuses (permissions, read-only or full filesystem)
MkdirFails(exists, fault) == exists \/ fault

\* os.Create returns an error: the directory is missing, or the environment
\* refuses
CreateFails(exists, fault) == ~exists \/ fault

\* mutant: the handler remembers how many requests it has finished and names
\* the destination by that count
DestName_Counter(t) ==
    Join(uploadPath, TimeString(Cardinality({q \in DOMAIN pc : pc[q] = "done"})))

\* the destination path of a file created at clock reading t
DestName(t) == Join(uploadPath, TimeString(t))

\* mutant: the upload directory is emptied before the destination is created
Truncate_Alone(fs, n) == [m \in {n} |-> <<>>]

\* mutant: the destination is opened with O_CREATE but without O_TRUNC
Truncate_Keep(fs, n) == [m \in DOMAIN fs \cup {n} |-> IF m \in DOMAIN fs THEN fs[m] ELSE <<>>]

\* os.Create on path n: O_CREATE|O_TRUNC, the file exists and is empty
Truncate(fs, n) == [m \in DOMAIN fs \cup {n} |-> IF m = n THEN <<>> ELSE fs[m]]

\* mutant: the destination is opened with O_APPEND, every write goes to the end
WriteAt_Append(content, off, chunk) == content \o chunk

\* a write of chunk at offset off into content; a gap is zero-filled
WriteAt(content, off, chunk) ==
    [i \in 1..Max(Len(content), off + Len(chunk)) |->
        IF i > off /\ i <= off + Len(chunk) THEN chunk[i - off]
        ELSE IF i <= Len(content) THEN content[i]
        ELSE 0]

\* the next piece io.Copy reads from the source at offset off
Chunk(payload, off) == SubSeq(payload, off + 1, Min(Len(payload), off + CopyBuf))

\* http.Error(w, msg, code): two headers, the status line and msg followed
\* by a newline
HttpError(r, code, msg) ==
    [resp EXCEPT ![r].status = code,
                 ![r].body = @ \o msg \o "\n",
                 ![r].writes = @ + 1,
                 ![r].headers = @ \cup {<<"Content-Type", "text/plain; charset=utf-8">>,
                                        <<"X-Content-Type-Options", "nosniff">>}]

\* response.WriteHeader(code) / the first write to the response, with body
WriteOK(r, text) ==
    [resp EXCEPT ![r].status = StatusOK, ![r].body = @ \o text, ![r].writes = @ + 1]

\* mutant: destFile.Close() is not deferred
Deferred_SrcOnly(step) == IF step = "formfile" THEN {"src"} ELSE {}

\* the handle whose Close the handler defers after a successful step
Deferred(step) ==
    IF step = "formfile" THEN {"src"}
    ELSE IF step = "create" THEN {"dst"}
    ELSE {}

\* mutant: a failed step is tried again
OnError_Retry(step) == step

\* where the handler goes after http.Error for a failed step: it returns
OnError(step) == "done"

\* mutant: the failing branch ends the process (log.Fatal) instead of
\* answering and returning
ProcAfterError_Fatal(p) == [p EXCEPT !.state = "exited"]

\* the process after a handler answered an error: untouched
ProcAfterError(p) == p

\* mutant: a failed copy removes the partial destination
AfterCopyError_Remove(fs, n) == [m \in DOMAIN fs \ {n} |-> fs[m]]

\* the upload directory after io.Copy returned an error: nothing is cleaned
AfterCopyError(fs, n) == fs

\* mutant: main blocks after printing the error
AfterServeError_Hang == "running"

\* main after http.ListenAndServe returned an error and it was printed:
\* main returns, which ends a Go program
AfterServeError == "exited"

\* http.HandleFunc: the patterns registered on the default multiplexer
Routes == {"/upload"}

\* the multiplexer finds a handler for the path (a pattern without a
\* trailing slash matches that path only)
Routed(path) == path \in Routes

\* the directory and the files, as one value
FS(dir, fs) == [dir |-> dir, files |-> fs]

\* the handler returns: deferred Close calls run, the observation of the
\* destination at that moment is recorded
Return(r, fs) ==
    /\ pc' = [pc EXCEPT ![r] = "done"]
    /\ h' = [h EXCEPT ![r].open = @ \ h[r].deferred]
    /\ hist' = [hist EXCEPT ![r].retFile =
                    IF h[r].name \in DOMAIN fs THEN {fs[h[r].name]} ELSE {},
                            ![r].post = {FS(dirExists, fs)}]

Step(r, s) == trace' = [trace EXCEPT ![r] = Append(@, s)]

\* -------------------------------------------------------------------- Init
Init ==
    /\ variant \in Variants
    /\ listener = "init"
    /\ proc = [state |-> "running", stdout |-> <<>>]
    /\ dirExists \in BOOLEAN
    /\ files = <<>>
    /\ now = 0
    /\ req = [r \in Reqs |-> NoReq]
    /\ pc = [r \in Reqs |-> "idle"]
    /\ resp = [r \in Reqs |-> NoResp]
    /\ h = [r \in Reqs |-> NoHandles]
    /\ trace = [r \in Reqs |-> <<>>]
    /\ hist = [r \in Reqs |-> NoHist]

\* ----------------------------------------------------------------- actions
\* main: prints the start line, then http.ListenAndServe binds the port and
\* serves, or returns an error, which main prints before it returns
ListenAndServe ==
    /\ listener = "init"
    /\ \E ok \in BOOLEAN :
          IF ok
          THEN /\ listener' = "serving"
               /\ proc' = [proc EXCEPT !.stdout = Append(@, "Server started")]
          ELSE /\ listener' = "failed"
               /\ proc' = [state |-> AfterServeError,
                           stdout |-> proc.stdout \o <<"Server started", "Server failed">>]
    /\ UNCHANGED <<variant, dirExists, files, now, req, pc, resp, h, trace, hist>>

\* the clock advances by one unit of its resolution
Tick ==
    /\ now < MaxClock
    /\ now' = now + 1
    /\ UNCHANGED <<variant, listener, proc, dirExists, files, req, pc, resp, h, trace, hist>>

\* net/http accepts a request to a registered path and starts uploadHandler
\* for it in its own goroutine
Arrive(r) ==
    /\ listener = "serving" /\ proc.state = "running"
    /\ pc[r] = "idle"
    /\ \A q \in Reqs : q < r => pc[q] # "idle"
    /\ \E p \in Paths, m \in Methods, f \in Forms :
          /\ Routed(p)
          /\ req' = [req EXCEPT ![r] = [path |-> p, method |-> m, form |-> f]]
    /\ pc' = [pc EXCEPT ![r] = "headers"]
    /\ hist' = [hist EXCEPT ![r].preNames = DOMAIN files,
                            ![r].doneBefore = {q \in Reqs : pc[q] \in {"done", "notfound"}},
                            ![r].pre = {FS(dirExists, files)}]
    /\ UNCHANGED <<variant, listener, proc, dirExists, files, now, resp, h, trace>>

\* net/http accepts a request to a path no pattern matches: the multiplexer
\* answers 404 itself and uploadHandler is not called
NotFound(r) ==
    /\ listener = "serving" /\ proc.state = "running"
    /\ pc[r] = "idle"
    /\ \A q \in Reqs : q < r => pc[q] # "idle"
    /\ \E p \in Paths :
          /\ ~Routed(p)
          /\ req' = [req EXCEPT ![r] = [path |-> p, method |-> "POST", form |-> FrontendForm]]
    /\ resp' = [resp EXCEPT ![r] = [status |-> StatusNotFound,
                                    body |-> "404 page not found\n",
                                    headers |-> {<<"Content-Type", "text/plain; charset=utf-8">>,
                                                 <<"X-Content-Type-Options", "nosniff">>},
                                    writes |-> 1]]
    /\ pc' = [pc EXCEPT ![r] = "notfound"]
    /\ hist' = [hist EXCEPT ![r].preNames = DOMAIN files,
                            ![r].doneBefore = {q \in Reqs : pc[q] \in {"done", "notfound"}}]
    /\ UNCHANGED <<variant, listener, proc, dirExists, files, now, h, trace>>

\* CORS headers and the OPTIONS short-circuit (CORS variant); the plain
\* variant has neither and goes straight to the method test
Headers(r) ==
    /\ pc[r] = "headers"
    /\ Step(r, "headers")
    /\ IF IsPreflight(variant, req[r].method)
       THEN /\ resp' = [WriteOK(r, "") EXCEPT ![r].headers = @ \cup CORSHeaders(variant)]
            /\ Return(r, files)
       ELSE /\ resp' = [resp EXCEPT ![r].headers = @ \cup CORSHeaders(variant)]
            /\ pc' = [pc EXCEPT ![r] =
                        IF ParsesBeforeMethod(variant) THEN "parse" ELSE "method"]
            /\ UNCHANGED <<h, hist>>
    /\ UNCHANGED <<variant, listener, proc, dirExists, files, now, req>>

\* request.ParseMultipartForm(32 << 20) (CORS variant)
ParseForm(r) ==
    /\ pc[r] = "parse"
    /\ Step(r, "parse")
    /\ IF ParseFails(req[r].form)
       THEN /\ resp' = HttpError(r, StatusBadRequest, "Could not parse form")
            /\ Return(r, files)
       ELSE /\ pc' = [pc EXCEPT ![r] = "method"]
            /\ UNCHANGED <<resp, h, hist>>
    /\ UNCHANGED <<variant, listener, proc, dirExists, files, now, req>>

\* if request.Method == http.MethodPost { ... } else { 405 }
MethodCheck(r) ==
    /\ pc[r] = "method"
    /\ Step(r, "method")
    /\ IF IsPost(req[r].method)
       THEN /\ pc' = [pc EXCEPT ![r] = "formfile"]
            /\ UNCHANGED <<resp, h, hist>>
       ELSE /\ resp' = HttpError(r, StatusMethodNotAllowed, "Invalid request method\n")
            /\ Return(r, files)
    /\ UNCHANGED <<variant, listener, proc, dirExists, files, now, req>>

\* file, _, err := request.FormFile(field); defer file.Close()
FormFile(r) ==
    /\ pc[r] = "formfile"
    /\ Step(r, "formfile")
    /\ IF FormFileFails(req[r].form, FieldName(variant))
       THEN /\ resp' = HttpError(r, StatusBadRequest,
                             IF variant = "cors" THEN "Error retrieving the file"
                             ELSE "Unable to get file from form\n")
            /\ Return(r, files)
       ELSE /\ h' = [h EXCEPT ![r].open = @ \cup {"src"},
                              ![r].deferred = @ \cup Deferred("formfile")]
            /\ pc' = [pc EXCEPT ![r] = "stat"]
            /\ UNCHANGED <<resp, hist>>
    /\ UNCHANGED <<variant, listener, proc, dirExists, files, now, req>>

\* os.Stat(uploadPath); os.IsNotExist(err)
Stat(r) ==
    /\ pc[r] = "stat"
    /\ Step(r, "stat")
    /\ pc' = [pc EXCEPT ![r] = IF StatNotExist(dirExists) THEN "mkdir" ELSE "create"]
    /\ UNCHANGED <<variant, listener, proc, dirExists, files, now, req, resp, h, hist>>

\* the handler answers 500 for a failed step and returns: deferred Close
\* calls run; fsAfter is the upload directory's content at that moment
Fail(r, step, msg, envFault, fsAfter) ==
    /\ resp' = HttpError(r, StatusInternalServerError, msg)
    /\ pc' = [pc EXCEPT ![r] = OnError(step)]
    /\ h' = [h EXCEPT ![r].open = @ \ h[r].deferred,
                      ![r].fault = step, ![r].env = envFault]
    /\ hist' = [hist EXCEPT ![r].retFile =
                    IF h[r].name \in DOMAIN fsAfter THEN {fsAfter[h[r].name]} ELSE {},
                            ![r].post = {FS(dirExists, fsAfter)}]
    /\ proc' = ProcAfterError(proc)

\* os.Mkdir(uploadPath, os.ModePerm)
Mkdir(r) ==
    /\ pc[r] = "mkdir"
    /\ Step(r, "mkdir")
    /\ \E fault \in BOOLEAN :
          IF MkdirFails(dirExists, fault)
          THEN /\ Fail(r, "mkdir", "Unable to create upload directory\n",
                       fault /\ ~dirExists, files)
               /\ UNCHANGED dirExists
          ELSE /\ dirExists' = TRUE
               /\ pc' = [pc EXCEPT ![r] = "create"]
               /\ UNCHANGED <<resp, h, hist, proc>>
    /\ UNCHANGED <<variant, listener, files, now, req>>

\* destFile, err := os.Create(filepath.Join(uploadPath, time.Now().String()))
\* defer destFile.Close()
Create(r) ==
    /\ pc[r] = "create"
    /\ Step(r, "create")
    /\ \E fault \in BOOLEAN :
          IF CreateFails(dirExists, fault)
          THEN /\ Fail(r, "create", "Unable to create file\n", TRUE, files)
               /\ UNCHANGED files
          ELSE /\ files' = Truncate(files, DestName(now))
               /\ h' = [h EXCEPT ![r].name = DestName(now), ![r].off = 0,
                                 ![r].open = @ \cup {"dst"},
                                 ![r].deferred = @ \cup Deferred("create")]
               /\ hist' = [hist EXCEPT ![r].at = {now}]
               /\ pc' = [pc EXCEPT ![r] = "copy"]
               /\ UNCHANGED <<resp, proc>>
    /\ UNCHANGED <<variant, listener, dirExists, now, req>>

\* io.Copy(destFile, file), one buffer: the write succeeds or fails
CopyWrite(r) ==
    /\ pc[r] = "copy"
    /\ h[r].off < Len(req[r].form.payload)
    /\ Step(r, "write")
    /\ \E fault \in BOOLEAN :
          IF fault
          THEN /\ files' = AfterCopyError(files, h[r].name)
               /\ Fail(r, "copy", "Unable to save file\n", TRUE,
                       AfterCopyError(files, h[r].name))
          ELSE /\ files' = [files EXCEPT ![h[r].name] =
                              WriteAt(@, h[r].off, Chunk(req[r].form.payload, h[r].off))]
               /\ h' = [h EXCEPT ![r].off = @ + Len(Chunk(req[r].form.payload, h[r].off))]
               /\ UNCHANGED <<pc, resp, hist, proc>>
    /\ UNCHANGED <<variant, listener, dirExists, now, req>>

\* io.Copy reaches the end of the source; fmt.Fprintf(response, "File
\* successfully uploaded\n"); the handler returns
Respond(r) ==
    /\ pc[r] = "copy"
    /\ h[r].off >= Len(req[r].form.payload)
    /\ Step(r, "respond")
    /\ resp' = WriteOK(r, "File successfully uploaded\n")
    /\ Return(r, files)
    /\ UNCHANGED <<variant, listener, proc, dirExists, files, now, req>>

Next ==
    \/ ListenAndServe
    \/ Tick
    \/ \E r \in Reqs : Arrive(r)
    \/ \E r \in Reqs : NotFound(r)
    \/ \E r \in Reqs : Headers(r)
    \/ \E r \in Reqs : ParseForm(r)
    \/ \E r \in Reqs : MethodCheck(r)
    \/ \E r \in Reqs : FormFile(r)
    \/ \E r \in Reqs : Stat(r)
    \/ \E r \in Reqs : Mkdir(r)
    \/ \E r \in Reqs : Create(r)
    \/ \E r \in Reqs : CopyWrite(r)
    \/ \E r \in Reqs : Respond(r)

Spec == Init /\ [][Next]_vars

\* ------------------------------------------------------------------- types
TypeOK ==
    /\ variant \in Variants
    /\ listener \in {"init", "serving", "failed"}
    /\ proc.state \in {"running", "exited"}
    /\ dirExists \in BOOLEAN
    /\ now \in 0..MaxClock
    /\ \A r \in Reqs : resp[r].status \in {0, 200, 400, 404, 405, 500}

\* ------------------------------------------------------- claim vocabulary
Done(r) == pc[r] = "done"
Payload(r) == req[r].form.payload
Did(r, s) == \E i \in 1..Len(trace[r]) : trace[r][i] = s
TouchedFS(r) == Did(r, "stat") \/ Did(r, "mkdir") \/ Did(r, "create") \/ Did(r, "write")
Quiescent == \A r \in Reqs : pc[r] \in {"idle", "done", "notfound"}

\* the request is a POST whose form has a file part under the name the
\* deployed variant reads
HasExpectedPart(r) ==
    /\ req[r].form.multipart
    /\ \/ variant = "plain" /\ req[r].form.field = "file"
       \/ variant = "cors" /\ req[r].form.field = "image"
ValidUpload(r) == req[r].method = "POST" /\ HasExpectedPart(r)

\* the methods the claims call accepted
Accepted(r) ==
    \/ req[r].method = "POST"
    \/ variant = "cors" /\ req[r].method = "OPTIONS"

\* q had returned before r arrived
Before(q, r) == q \in hist[r].doneBefore
\* r ran alone: every other request returned before r arrived or arrived
\* after r returned
RanAlone(r) == \A q \in Reqs \ {r} : pc[q] = "idle" \/ Before(q, r) \/ Before(r, q)

\* C1: every valid single-part POST (no refusal by the environment) gets 200
\* and leaves in the upload directory a file that was not there when the
\* request arrived.
C1_ValidPostCreatesNewFile ==
    \A r \in Reqs :
        (Done(r) /\ ValidUpload(r) /\ ~h[r].env) =>
            /\ resp[r].status = 200
            /\ h[r].name \in DOMAIN files
            /\ h[r].name \notin hist[r].preNames

\* C2: an upload that responds 200 has the confirmation body, and its
\* destination file holds exactly its payload when the handler returns.
C2_OkMeansStored ==
    \A r \in Reqs :
        (Done(r) /\ req[r].method = "POST" /\ resp[r].status = 200) =>
            /\ resp[r].body = "File successfully uploaded\n"
            /\ hist[r].retFile = {Payload(r)}

\* C3: a POST without a file part under the expected field name gets 400 and
\* performs no operation on the filesystem.
C3_NoFilePartIs400 ==
    \A r \in Reqs :
        (Done(r) /\ req[r].method = "POST" /\ ~HasExpectedPart(r)) =>
            /\ resp[r].status = 400
            /\ ~TouchedFS(r)
            /\ h[r].name = ""

C3_Witness ==
    \E r \in Reqs :
        /\ Done(r) /\ req[r].method = "POST" /\ ~HasExpectedPart(r)
        /\ req[r].form.multipart /\ req[r].form.field # ""
        /\ resp[r].status = 400
        /\ DOMAIN files # {}

\* C4: a request whose method is not accepted (not POST; in the CORS variant
\* not POST and not OPTIONS) gets 405 and creates no file, whatever its body.
C4_OtherMethodIs405 ==
    \A r \in Reqs :
        (Done(r) /\ ~Accepted(r)) =>
            /\ resp[r].status = 405
            /\ ~Did(r, "create")

\* C5: in the CORS variant an OPTIONS request gets 200 with an empty body and
\* the three CORS headers, without the form being parsed or the filesystem
\* being touched.
C5_PreflightShortCircuits ==
    \A r \in Reqs :
        (Done(r) /\ variant = "cors" /\ req[r].method = "OPTIONS") =>
            /\ resp[r].status = 200
            /\ resp[r].body = ""
            /\ resp[r].headers = {<<"Access-Control-Allow-Origin", "*">>,
                                  <<"Access-Control-Allow-Methods", "POST">>,
                                  <<"Access-Control-Allow-Headers", "Content-Type">>}
            /\ ~Did(r, "parse") /\ ~Did(r, "formfile")
            /\ ~TouchedFS(r)

C5_Witness ==
    \E r \in Reqs :
        /\ Done(r) /\ variant = "cors" /\ req[r].method = "OPTIONS"
        /\ req[r].form.multipart /\ req[r].form.field = "image"
        /\ resp[r].status = 200

\* C6: once no request is in flight (and the environment refused nothing),
\* the number of files in the upload directory equals the number of uploads
\* that responded 200.
C6_OneFilePerOk ==
    (Quiescent /\ \A r \in Reqs : ~h[r].env) =>
        Cardinality(DOMAIN files) =
            Cardinality({r \in Reqs : req[r].method = "POST" /\ resp[r].status = 200})

\* C7: a valid upload that found the directory missing and went on to create
\* it never fails because another request created it first: absent a
\* refusal by the environment it responds 200.
C7_MkdirRaceHarmless ==
    \A r \in Reqs :
        (Done(r) /\ Did(r, "mkdir") /\ ~h[r].env) => resp[r].status = 200

\* C8: two sequential successful uploads (the second ran alone, after the
\* first returned) leave two distinct files, unless their creation
\* timestamps render to the same name; then one file is under that name and
\* at the second's return it holds exactly the second's payload.
C8_SequentialUploads ==
    \A r1, r2 \in Reqs :
        (/\ r1 # r2 /\ Done(r1) /\ Done(r2)
         /\ Before(r1, r2) /\ RanAlone(r2)
         /\ ValidUpload(r1) /\ ValidUpload(r2)
         /\ resp[r1].status = 200 /\ resp[r2].status = 200) =>
            /\ {h[r1].name, h[r2].name} \subseteq DOMAIN files
            /\ hist[r2].retFile = {Payload(r2)}
            /\ h[r1].name # h[r2].name => Cardinality(DOMAIN files) >= 2

C8_Witness ==
    \E r1, r2 \in Reqs :
        /\ r1 # r2 /\ Done(r1) /\ Done(r2) /\ Before(r1, r2)
        /\ resp[r1].status = 200 /\ resp[r2].status = 200
        /\ h[r1].name = h[r2].name
        /\ Len(Payload(r1)) > Len(Payload(r2))
        /\ hist[r2].retFile = {Payload(r2)}

\* r1 and r2 overlapped in time and created their destinations under the
\* same name, which no other request used; the environment refused nothing
Collided(r1, r2) ==
    /\ r1 # r2 /\ Done(r1) /\ Done(r2)
    /\ ~Before(r1, r2) /\ ~Before(r2, r1)
    /\ h[r1].name # "" /\ h[r1].name = h[r2].name
    /\ \A q \in Reqs \ {r1, r2} : h[q].name # h[r1].name
    /\ ~h[r1].env /\ ~h[r2].env

\* C9 (as stated): after two concurrent uploads collided on a name, both have
\* 200, one file is under that name and its content is exactly the payload
\* of one of the two.
C9_CollisionKeepsOnePayload ==
    \A r1, r2 \in Reqs :
        Collided(r1, r2) =>
            /\ resp[r1].status = 200 /\ resp[r2].status = 200
            /\ h[r1].name \in DOMAIN files
            /\ files[h[r1].name] \in {Payload(r1), Payload(r2)}

\* C9 (amended): after two concurrent uploads collided on a name, both have
\* 200 and one file is under that name; its length is the length of one of
\* the two payloads, and each of its bytes is the byte at that position of
\* one of the two payloads or a zero fill.
C9_CollisionMixesPayloads ==
    \A r1, r2 \in Reqs :
        Collided(r1, r2) =>
            /\ resp[r1].status = 200 /\ resp[r2].status = 200
            /\ h[r1].name \in DOMAIN files
            /\ LET f == files[h[r1].name]
                   p1 == Payload(r1)
                   p2 == Payload(r2)
               IN /\ Len(f) \in {Len(p1), Len(p2)}
                  /\ \A i \in 1..Len(f) :
                        \/ f[i] = 0
                        \/ i <= Len(p1) /\ f[i] = p1[i]
                        \/ i <= Len(p2) /\ f[i] = p2[i]

C9_Witness ==
    \E r1, r2 \in Reqs :
        /\ Collided(r1, r2)
        /\ files[h[r1].name] \notin {Payload(r1), Payload(r2)}

\* C10: each status is used for its cause and no other: 405 exactly for a
\* method that is not accepted, 400 exactly for an unparseable form or a
\* missing file part, 500 exactly for a failed directory creation, file
\* creation or copy, and 200 for a request with none of these.
C10_StatusByCause ==
    \A r \in Reqs :
        Done(r) =>
            /\ resp[r].status = 405 <=> ~Accepted(r)
            /\ resp[r].status = 400 <=> (req[r].method = "POST" /\ ~HasExpectedPart(r))
            /\ resp[r].status = 500 <=> h[r].fault # "none"
            /\ resp[r].status = 200 <=>
                   /\ Accepted(r)
                   /\ ~(req[r].method = "POST" /\ ~HasExpectedPart(r))
                   /\ h[r].fault = "none"

\* C11: a request whose copy fails responds 500 and cleans nothing up: the
\* destination it created stays in the upload directory, then and in every
\* later state, whatever requests follow.
C11_CopyFailureLeavesFile ==
    \A r \in Reqs :
        (Done(r) /\ h[r].fault = "copy") =>
            /\ resp[r].status = 500
            /\ ~Did(r, "respond")
            /\ h[r].name \in DOMAIN files
            /\ hist[r].retFile # {}

C11_Witness ==
    \E r, q \in Reqs :
        /\ Done(r) /\ h[r].fault = "copy" /\ h[r].off >= 1
        /\ Len(files[h[r].name]) < Len(Payload(r))
        /\ Done(q) /\ Before(r, q) /\ resp[q].status = 200 /\ ValidUpload(q)

\* C12: a request that ended in 500 leaves the process running and serving,
\* and a valid upload that arrives after it, overlaps no other request and
\* meets no refusal of the environment responds 200 with its payload stored.
C12_ServerSurvives500 ==
    \A r1 \in Reqs :
        (Done(r1) /\ resp[r1].status = 500) =>
            /\ listener = "serving"
            /\ proc.state = "running"
            /\ \A r2 \in Reqs :
                  (/\ Done(r2) /\ Before(r1, r2) /\ RanAlone(r2)
                   /\ ValidUpload(r2) /\ ~h[r2].env) =>
                      /\ resp[r2].status = 200
                      /\ hist[r2].retFile = {Payload(r2)}

C12_Witness ==
    \E r1, r2 \in Reqs :
        /\ Done(r1) /\ resp[r1].status = 500 /\ h[r1].fault = "mkdir"
        /\ Done(r2) /\ Before(r1, r2) /\ ValidUpload(r2)
        /\ resp[r2].status = 200

\* C13 (as stated): after the listener failed to bind, the error is on
\* standard output and the process is still alive.
C13_BindFailureKeepsProcess ==
    listener = "failed" =>
        /\ \E i \in 1..Len(proc.stdout) : proc.stdout[i] = "Server failed"
        /\ proc.state = "running"

\* C13 (amended): after the listener failed to bind, the error is on
\* standard output after the start line, main has returned and the process
\* has exited; no request was or will be served.
C13_BindFailureExits ==
    listener = "failed" =>
        /\ proc.stdout = <<"Server started", "Server failed">>
        /\ proc.state = "exited"
        /\ \A r \in Reqs : pc[r] = "idle"

C13_Witness == listener = "failed" /\ proc.state = "exited"

\* C14: in the CORS deployment a POST to /uploadimage, /uploadsong or
\* /uploadrsvp reaches the upload handler and gets one of its responses.
C14_FrontendPathsRouted ==
    \A r \in Reqs :
        (/\ variant = "cors" /\ pc[r] \in {"done", "notfound"}
         /\ req[r].path \in {"/uploadimage", "/uploadsong", "/uploadrsvp"}
         /\ req[r].method = "POST") =>
            /\ Did(r, "headers")
            /\ resp[r].status \in {200, 400, 500}

\* the position of each step in the handler
Rank(s) ==
    CASE s = "headers" -> 0
      [] s = "parse" -> 1
      [] s = "method" -> 2
      [] s = "formfile" -> 3
      [] s = "stat" -> 4
      [] s = "mkdir" -> 5
      [] s = "create" -> 6
      [] s = "write" -> 7
      [] s = "respond" -> 8
Last(r) == trace[r][Len(trace[r])]
Count(r, s) == Cardinality({i \in 1..Len(trace[r]) : trace[r][i] = s})

\* C15: the steps run in the order parse, retrieve, ensure directory, create,
\* copy, respond, and a failed step is the request's last: a missing file
\* part never reaches the directory, a failed Mkdir creates no file, a failed
\* Create writes nothing, and no failure is followed by the 200 response.
C15_StepsInOrder ==
    \A r \in Reqs :
        /\ \A i \in 1..(Len(trace[r]) - 1) :
              \/ Rank(trace[r][i]) < Rank(trace[r][i + 1])
              \/ trace[r][i] = "write" /\ trace[r][i + 1] = "write"
        /\ Done(r) =>
              /\ (req[r].method = "POST" /\ ~HasExpectedPart(r)) =>
                     ~TouchedFS(r) /\ ~Did(r, "respond")
              /\ h[r].fault = "mkdir" => Last(r) = "mkdir" /\ h[r].name = ""
              /\ h[r].fault = "create" => Last(r) = "create" /\ h[r].name = ""
              /\ h[r].fault = "copy" => Last(r) = "write"
              /\ resp[r].status # 200 => ~Did(r, "respond")
              /\ Did(r, "respond") =>
                     /\ Did(r, "formfile") /\ Did(r, "stat") /\ Did(r, "create")
                     /\ h[r].off = Len(Payload(r))
                     /\ h[r].fault = "none"

C15_Witness ==
    \E r \in Reqs :
        /\ Done(r) /\ variant = "cors" /\ h[r].fault = "create"
        /\ trace[r] = <<"headers", "parse", "method", "formfile", "stat", "mkdir", "create">>
        /\ Len(Payload(r)) > 0

\* C16: a request handled by uploadHandler gets exactly one response, written
\* when the handler ends, with a status among 200, 400, 405, 500; the
\* existence check, the directory creation and the file creation are each
\* attempted at most once and no buffer of the payload is written twice.
C16_OneResponseNoRetry ==
    \A r \in Reqs :
        /\ Done(r) => resp[r].writes = 1 /\ resp[r].status \in {200, 400, 405, 500}
        /\ pc[r] \notin {"done", "notfound"} => resp[r].writes = 0 /\ resp[r].status = 0
        /\ Count(r, "stat") <= 1 /\ Count(r, "mkdir") <= 1 /\ Count(r, "create") <= 1
        /\ Count(r, "respond") <= 1
        /\ Count(r, "write") <= Len(Payload(r))

C16_Witness ==
    \E r \in Reqs :
        /\ Done(r) /\ h[r].fault = "mkdir" /\ h[r].env
        /\ resp[r].writes = 1 /\ resp[r].status = 500

\* C17: no step removes or renames anything: the set of file names in the
\* upload directory only grows and the directory, once there, stays.
C17_FilesOnlyGrow ==
    [][/\ DOMAIN files \subseteq DOMAIN files'
       /\ dirExists => dirExists']_vars

C17_Witness ==
    \E r, q \in Reqs :
        /\ Done(r) /\ Done(q) /\ Before(r, q)
        /\ h[r].name # "" /\ h[q].name # "" /\ h[r].name # h[q].name
        /\ {h[r].name, h[q].name} \subseteq DOMAIN files
        /\ dirExists

\* what a request that overlaps no other request must produce, as a function
\* of the variant, the request, the directory and files at its arrival, the
\* clock reading at its file creation, and the step the environment failed
\* (with the copy offset reached); nothing else enters
ExpStatus(v, rq, fault) ==
    IF v = "cors" /\ rq.method = "OPTIONS" THEN 200
    ELSE IF v = "cors" /\ ~rq.form.multipart THEN 400
    ELSE IF rq.method # "POST" THEN 405
    ELSE IF ~rq.form.multipart \/ rq.form.field # (IF v = "cors" THEN "image" ELSE "file")
         THEN 400
    ELSE IF fault # "none" THEN 500
    ELSE 200

ExpBody(v, rq, fault) ==
    IF v = "cors" /\ rq.method = "OPTIONS" THEN ""
    ELSE IF v = "cors" /\ ~rq.form.multipart THEN "Could not parse form\n"
    ELSE IF rq.method # "POST" THEN "Invalid request method\n\n"
    ELSE IF ~rq.form.multipart \/ rq.form.field # (IF v = "cors" THEN "image" ELSE "file")
         THEN (IF v = "cors" THEN "Error retrieving the file\n"
               ELSE "Unable to get file from form\n\n")
    ELSE IF fault = "mkdir" THEN "Unable to create upload directory\n\n"
    ELSE IF fault = "create" THEN "Unable to create file\n\n"
    ELSE IF fault = "copy" THEN "Unable to save file\n\n"
    ELSE "File successfully uploaded\n"

ExpFS(v, rq, pre, at, fault, off) ==
    IF ExpStatus(v, rq, fault) \in {400, 405} \/ (v = "cors" /\ rq.method = "OPTIONS")
    THEN pre
    ELSE IF fault = "mkdir" THEN pre
    ELSE IF fault = "create" THEN [pre EXCEPT !.dir = TRUE]
    ELSE LET t == CHOOSE x \in at : TRUE
             n == "uploads/m=+" \o ToString(t)
             content == IF fault = "copy" THEN SubSeq(rq.form.payload, 1, off)
                        ELSE rq.form.payload
         IN [dir |-> TRUE,
             files |-> [m \in DOMAIN pre.files \cup {n} |->
                           IF m = n THEN content ELSE pre.files[m]]]

Pre(r) == CHOOSE x \in hist[r].pre : TRUE

\* C18: the outcome of a request that overlaps no other request (status,
\* body, and the directory and files at its return) is a function of the
\* request, the directory and files at its arrival, the clock reading and the
\* environment's failures alone; so two such requests that agree on these
\* agree on the outcome, whatever was served before either.
C18_NoCrossRequestMemory ==
    /\ \A r \in Reqs :
          (Done(r) /\ RanAlone(r)) =>
              /\ resp[r].status = ExpStatus(variant, req[r], h[r].fault)
              /\ resp[r].body = ExpBody(variant, req[r], h[r].fault)
              /\ hist[r].post =
                     {ExpFS(variant, req[r], Pre(r), hist[r].at, h[r].fault, h[r].off)}
    /\ \A r1, r2 \in Reqs :
          (/\ Done(r1) /\ RanAlone(r1) /\ Done(r2) /\ RanAlone(r2)
           /\ req[r1] = req[r2] /\ hist[r1].pre = hist[r2].pre
           /\ hist[r1].at = hist[r2].at
           /\ h[r1].fault = h[r2].fault /\ h[r1].off = h[r2].off) =>
              /\ resp[r1] = resp[r2]
              /\ hist[r1].post = hist[r2].post

C18_Witness ==
    \E r1, r2 \in Reqs :
        /\ r1 # r2 /\ Done(r1) /\ Done(r2) /\ Before(r1, r2)
        /\ RanAlone(r1) /\ RanAlone(r2)
        /\ ValidUpload(r1) /\ req[r1] = req[r2]
        /\ hist[r1].pre = hist[r2].pre
        /\ h[r1].fault = "create" /\ h[r2].fault = "create"
        /\ resp[r1] = resp[r2] /\ hist[r1].post = hist[r2].post

\* C19: in the CORS variant every response of the handler carries the three
\* CORS headers, whatever its status; in the plain variant no response
\* carries any of them.
C19_CORSHeadersOnEveryResponse ==
    \A r \in Reqs :
        Done(r) =>
            /\ variant = "cors" =>
                  {<<"Access-Control-Allow-Origin", "*">>,
                   <<"Access-Control-Allow-Methods", "POST">>,
                   <<"Access-Control-Allow-Headers", "Content-Type">>}
                      \subseteq resp[r].headers
            /\ variant = "plain" =>
                  \A hd \in resp[r].headers :
                      hd[1] \notin {"Access-Control-Allow-Origin",
                                    "Access-Control-Allow-Methods",
                                    "Access-Control-Allow-Headers"}

C19_Witness ==
    \E r, q \in Reqs :
        /\ variant = "cors" /\ Done(r) /\ Done(q)
        /\ resp[r].status = 500 /\ resp[q].status = 405
        /\ <<"Access-Control-Allow-Methods", "POST">> \in resp[r].headers
        /\ <<"Content-Type", "text/plain; charset=utf-8">> \in resp[q].headers

\* C20: while the handler runs it holds the source after FormFile and the
\* destination after Create, and when it has returned, on the 200 path and
\* on every error path, none of its handles is open.
C20_HandlesClosedOnReturn ==
    \A r \in Reqs :
        /\ pc[r] \in {"stat", "mkdir", "create"} => h[r].open = {"src"}
        /\ pc[r] = "copy" => h[r].open = {"src", "dst"}
        /\ Done(r) => h[r].open = {}

C20_Witness ==
    \E r \in Reqs :
        /\ Done(r) /\ h[r].fault = "copy" /\ h[r].name # ""
        /\ h[r].deferred = {"src", "dst"}
        /\ h[r].open = {}

====
